---- MODULE Spec2Model ----
(***************************************************************************)
(* A model of go-yggdrasil: one Client (the session) and its five          *)
(* operations Authenticate, Refresh, Validate, Signout and Invalidate.     *)
(* Every operation builds a request from the client's fields, performs one *)
(* HTTP exchange and decodes the reply.  The remote server and the network *)
(* are the environment: each call draws one transport outcome.             *)
(***************************************************************************)
EXTENDS Integers, Sequences, FiniteSets, TLC

VARIABLES client, op, request, transport, ret

vars == <<client, op, request, transport, ret>>

\* Records are written with their fields in the order TLC keeps them (that
\* of the names' first use in this module), so that a record two workers
\* share is never reordered under a reader.

(***************************************************************************)
(* Bounds of the model.                                                    *)
(***************************************************************************)
NumTokens == 2          \* distinct non-empty access/client tokens
MaxProperties == 1      \* longest User.Properties list a response carries

(***************************************************************************)
(* HTTP status codes the code compares against.                            *)
(***************************************************************************)
StatusOK == 200
StatusNoContent == 204
StatusForbidden == 403

Statuses == {101, StatusOK, StatusNoContent, StatusForbidden, 500}

(***************************************************************************)
(* Go values.  A string is a TLA+ string, a struct a record, a slice a     *)
(* sequence.  An error value is named by the step that produced it; "nil"  *)
(* is the absent error.                                                    *)
(***************************************************************************)
NoError == "nil"
DoError == "http.Client.Do"
ReadError == "ioutil.ReadAll"
SyntaxError == "json.SyntaxError"
TypeError == "json.UnmarshalTypeError"

AccessTokenName(i) == "AT" \o ToString(i)
ClientTokenName(i) == "CT" \o ToString(i)
AccessTokens == {""} \cup {AccessTokenName(i) : i \in 1..NumTokens}
ClientTokens == {""} \cup {ClientTokenName(i) : i \in 1..NumTokens}

Profile(id, name, legacy) == [ID |-> id, Name |-> name, Legacy |-> legacy]
ZeroProfile == Profile("", "", FALSE)

Property(name, value) == [Name |-> name, Value |-> value]

Client(at, ct, profile, user) ==
    [AccessToken |-> at, ClientToken |-> ct, SelectedProfile |-> profile, User |-> user]

User(id, properties) == [ID |-> id, Properties |-> properties]
ZeroUser == User("", <<>>)

Error(error, message, cause, status, funcError) ==
    [Error |-> error, ErrorMessage |-> message, Cause |-> cause,
     StatusCode |-> status, FuncError |-> funcError]
ZeroError == Error("", "", "", 0, NoError)

\* &Error{FuncError: err}
LocalError(err) == Error("", "", "", 0, err)

AuthenticationResponse(at, ct, available, profile, user) ==
    [AccessToken |-> at, ClientToken |-> ct, SelectedProfile |-> profile,
     User |-> user, AvailableProfiles |-> available]
ZeroAuthenticationResponse == AuthenticationResponse("", "", <<>>, ZeroProfile, ZeroUser)

RefreshResponse(at, ct, profile, user) ==
    [AccessToken |-> at, ClientToken |-> ct, SelectedProfile |-> profile, User |-> user]
ZeroRefreshResponse == RefreshResponse("", "", ZeroProfile, ZeroUser)

\* A pointer: nil, or the address of a value.
NilPtr(zero) == [isNil |-> TRUE, val |-> zero]
Ptr(v) == [isNil |-> FALSE, val |-> v]

(***************************************************************************)
(* JSON.  A response body is its bytes together with what encoding/json's  *)
(* scanner makes of them: not valid JSON, or a JSON value.  Values are     *)
(* tagged records; an object is the sequence of its members, each a pair   *)
(* of a key and a value.                                                   *)
(***************************************************************************)
JNull == [t |-> "null"]
JString(s) == [t |-> "string", s |-> s]
JNumber(n) == [t |-> "number", n |-> n]
JBool(b) == [t |-> "bool", b |-> b]
JArray(a) == [t |-> "array", a |-> a]
JObject(m) == [t |-> "object", m |-> m]

InvalidBody(bytes) == [bytes |-> bytes, valid |-> FALSE, json |-> JNull]
JSONBody(bytes, v) == [bytes |-> bytes, valid |-> TRUE, json |-> v]

\* The value an object gives a key: that of the last member with the key.
\* An absent key, like a null, leaves the destination field at its zero value.
\* Keys are compared exactly; no body of the catalogue has a key that
\* differs from a field's tag only in case.
HasMember(m, key) == \E i \in DOMAIN m : m[i][1] = key

Member(m, key) ==
    IF HasMember(m, key)
    THEN LET last == CHOOSE i \in DOMAIN m :
                         /\ m[i][1] = key
                         /\ \A j \in DOMAIN m : m[j][1] = key => j <= i
         IN  m[last][2]
    ELSE JNull

Decoded(err, val) == [err |-> err, val |-> val]

DecodeString(v) ==
    IF v.t = "null" THEN Decoded(FALSE, "")
    ELSE IF v.t = "string" THEN Decoded(FALSE, v.s)
    ELSE Decoded(TRUE, "")

DecodeBool(v) ==
    IF v.t = "null" THEN Decoded(FALSE, FALSE)
    ELSE IF v.t = "bool" THEN Decoded(FALSE, v.b)
    ELSE Decoded(TRUE, FALSE)

DecodeInt(v) ==
    IF v.t = "null" THEN Decoded(FALSE, 0)
    ELSE IF v.t = "number" THEN Decoded(FALSE, v.n)
    ELSE Decoded(TRUE, 0)

\* A destination of interface type error accepts only null.
DecodeErrorInterface(v) ==
    IF v.t = "null" THEN Decoded(FALSE, NoError) ELSE Decoded(TRUE, NoError)

DecodeProfile(v) ==
    IF v.t = "null" THEN Decoded(FALSE, ZeroProfile)
    ELSE IF v.t # "object" THEN Decoded(TRUE, ZeroProfile)
    ELSE LET id == DecodeString(Member(v.m, "id"))
             name == DecodeString(Member(v.m, "name"))
             legacy == DecodeBool(Member(v.m, "legacy"))
         IN  Decoded(id.err \/ name.err \/ legacy.err,
                     Profile(id.val, name.val, legacy.val))

DecodeProfiles(v) ==
    IF v.t = "null" THEN Decoded(FALSE, <<>>)
    ELSE IF v.t # "array" THEN Decoded(TRUE, <<>>)
    ELSE LET each == [i \in DOMAIN v.a |-> DecodeProfile(v.a[i])]
         IN  Decoded(\E i \in DOMAIN each : each[i].err,
                     [i \in DOMAIN each |-> each[i].val])

DecodeProperty(v) ==
    IF v.t = "null" THEN Decoded(FALSE, Property("", ""))
    ELSE IF v.t # "object" THEN Decoded(TRUE, Property("", ""))
    ELSE LET name == DecodeString(Member(v.m, "name"))
             value == DecodeString(Member(v.m, "value"))
         IN  Decoded(name.err \/ value.err, Property(name.val, value.val))

DecodeProperties(v) ==
    IF v.t = "null" THEN Decoded(FALSE, <<>>)
    ELSE IF v.t # "array" THEN Decoded(TRUE, <<>>)
    ELSE LET each == [i \in DOMAIN v.a |-> DecodeProperty(v.a[i])]
         IN  Decoded(\E i \in DOMAIN each : each[i].err,
                     [i \in DOMAIN each |-> each[i].val])

DecodeUser(v) ==
    IF v.t = "null" THEN Decoded(FALSE, ZeroUser)
    ELSE IF v.t # "object" THEN Decoded(TRUE, ZeroUser)
    ELSE LET id == DecodeString(Member(v.m, "id"))
             properties == DecodeProperties(Member(v.m, "properties"))
         IN  Decoded(id.err \/ properties.err, User(id.val, properties.val))

\* json.Unmarshal(body, &p) for p a nil pointer to a struct: a syntax error
\* for bytes that are not JSON, p left nil and no error for the literal
\* null, a type error for any other non-object and for a member of the
\* wrong type, otherwise a fresh struct with the members it names.
Unmarshalled(err, ptr) == [err |-> err, ptr |-> ptr]

UnmarshalError(body) ==
    IF ~body.valid THEN Unmarshalled(SyntaxError, NilPtr(ZeroError))
    ELSE IF body.json.t = "null" THEN Unmarshalled(NoError, NilPtr(ZeroError))
    ELSE IF body.json.t # "object" THEN Unmarshalled(TypeError, NilPtr(ZeroError))
    ELSE LET m == body.json.m
             error == DecodeString(Member(m, "error"))
             message == DecodeString(Member(m, "errorMessage"))
             cause == DecodeString(Member(m, "cause"))
             status == DecodeInt(Member(m, "StatusCode"))
             funcError == DecodeErrorInterface(Member(m, "FuncError"))
             bad == error.err \/ message.err \/ cause.err \/ status.err \/ funcError.err
         IN  Unmarshalled(IF bad THEN TypeError ELSE NoError,
                          Ptr(Error(error.val, message.val, cause.val,
                                    status.val, funcError.val)))

UnmarshalAuthenticationResponse(body) ==
    IF ~body.valid THEN Unmarshalled(SyntaxError, NilPtr(ZeroAuthenticationResponse))
    ELSE IF body.json.t = "null"
         THEN Unmarshalled(NoError, NilPtr(ZeroAuthenticationResponse))
    ELSE IF body.json.t # "object"
         THEN Unmarshalled(TypeError, NilPtr(ZeroAuthenticationResponse))
    ELSE LET m == body.json.m
             at == DecodeString(Member(m, "accessToken"))
             ct == DecodeString(Member(m, "clientToken"))
             available == DecodeProfiles(Member(m, "availableProfiles"))
             profile == DecodeProfile(Member(m, "selectedProfile"))
             user == DecodeUser(Member(m, "user"))
             bad == at.err \/ ct.err \/ available.err \/ profile.err \/ user.err
         IN  Unmarshalled(IF bad THEN TypeError ELSE NoError,
                          Ptr(AuthenticationResponse(at.val, ct.val, available.val,
                                                     profile.val, user.val)))

UnmarshalRefreshResponse(body) ==
    IF ~body.valid THEN Unmarshalled(SyntaxError, NilPtr(ZeroRefreshResponse))
    ELSE IF body.json.t = "null" THEN Unmarshalled(NoError, NilPtr(ZeroRefreshResponse))
    ELSE IF body.json.t # "object" THEN Unmarshalled(TypeError, NilPtr(ZeroRefreshResponse))
    ELSE LET m == body.json.m
             at == DecodeString(Member(m, "accessToken"))
             ct == DecodeString(Member(m, "clientToken"))
             profile == DecodeProfile(Member(m, "selectedProfile"))
             user == DecodeUser(Member(m, "user"))
             bad == at.err \/ ct.err \/ profile.err \/ user.err
         IN  Unmarshalled(IF bad THEN TypeError ELSE NoError,
                          Ptr(RefreshResponse(at.val, ct.val, profile.val, user.val)))

\* The bytes of a JSON value, as a server writes them.
RECURSIVE Text(_), TextArray(_, _), TextObject(_, _)
Text(v) ==
    CASE v.t = "null" -> "null"
      [] v.t = "string" -> "\"" \o v.s \o "\""
      [] v.t = "number" -> ToString(v.n)
      [] v.t = "bool" -> (IF v.b THEN "true" ELSE "false")
      [] v.t = "array" -> "[" \o TextArray(v.a, 1) \o "]"
      [] v.t = "object" -> "{" \o TextObject(v.m, 1) \o "}"
TextArray(a, i) ==
    IF i > Len(a) THEN ""
    ELSE Text(a[i]) \o (IF i < Len(a) THEN "," ELSE "") \o TextArray(a, i + 1)
TextObject(m, i) ==
    IF i > Len(m) THEN ""
    ELSE "\"" \o m[i][1] \o "\":" \o Text(m[i][2])
         \o (IF i < Len(m) THEN "," ELSE "") \o TextObject(m, i + 1)

JSON(v) == JSONBody(Text(v), v)

(***************************************************************************)
(* The replies the environment may give.  Bodies is a catalogue of wire    *)
(* bodies: no bytes, bytes that are not JSON, JSON that is no object,      *)
(* error envelopes, success payloads, and objects with members of the      *)
(* wrong type.                                                             *)
(***************************************************************************)
ProfileName(i) == IF i = 1 THEN "Steve" ELSE "Alex" \o ToString(i)

ProfileJSON(i) ==
    JObject(<< <<"id", JString("P" \o ToString(i))>>,
               <<"name", JString(ProfileName(i))>>,
               <<"legacy", JBool(i > 1)>> >>)

PropertyJSON(j) ==
    JObject(<< <<"name", JString("preferredLanguage")>>,
               <<"value", JString("en" \o ToString(j))>> >>)

\* The i-th account's user: account 1 has no properties, later ones have
\* up to MaxProperties.
NumProperties(i) == IF i - 1 < MaxProperties THEN i - 1 ELSE MaxProperties

UserJSON(i) ==
    JObject(<< <<"id", JString("U" \o ToString(i))>>,
               <<"properties", JArray([j \in 1..NumProperties(i) |-> PropertyJSON(j)])>> >>)

\* The success payload of /authenticate and /refresh that hands out the
\* i-th token pair.
SuccessJSON(i) ==
    JObject(<< <<"accessToken", JString(AccessTokenName(i))>>,
               <<"clientToken", JString(ClientTokenName(i))>>,
               <<"availableProfiles", JArray(<<ProfileJSON(i)>>)>>,
               <<"selectedProfile", ProfileJSON(i)>>,
               <<"user", UserJSON(i)>> >>)

ErrorJSON(error, message) ==
    JObject(<< <<"error", JString(error)>>, <<"errorMessage", JString(message)>> >>)

ErrorCauseJSON(error, message, cause) ==
    JObject(<< <<"error", JString(error)>>,
               <<"errorMessage", JString(message)>>,
               <<"cause", JString(cause)>> >>)

FixedBodies ==
    << InvalidBody(""),
       InvalidBody("{"),
       JSON(JNull),
       JSON(JArray(<<>>)),
       JSON(JObject(<<>>)),
       JSON(ErrorJSON("ForbiddenOperationException", "Invalid token.")),
       JSON(ErrorCauseJSON("ForbiddenOperationException", "Invalid credentials.",
                           "UserMigratedException")),
       JSON(JObject(<< <<"error", JString("IllegalArgumentException")>>,
                       <<"StatusCode", JNumber(418)>> >>)),
       JSON(JObject(<< <<"error", JNumber(5)>>, <<"accessToken", JNumber(5)>> >>)),
       JSON(JObject(<< <<"FuncError", JString("boom")>> >>)) >>

Bodies == FixedBodies \o [i \in 1..NumTokens |-> JSON(SuccessJSON(i))]

\* What one exchange yields: httpClient.Do fails, reading the body fails,
\* or a response arrives with a status code and a body.
DoFailed == "Do failed"
ReadFailed == "ReadAll failed"
Responded == "response"

Outcome(kind, status, body) == [status |-> status, body |-> body, kind |-> kind]
NoOutcome == Outcome("none", 0, InvalidBody(""))

TransportError(out) ==
    IF out.kind = DoFailed THEN DoError
    ELSE IF out.kind = ReadFailed THEN ReadError
    ELSE NoError

(***************************************************************************)
(* Requests.  Each operation marshals its request struct and hands it to   *)
(* http.NewRequest with the endpoint's URL; nothing else of the request is *)
(* touched before it is sent.                                              *)
(***************************************************************************)
\* A request's header: the sequence of the fields set on it, each a pair of
\* a name and a value.
EmptyHeader == <<>>

\* Faulty variant: the request names its sender.
NewRequestWithUserAgent(url, body) ==
    [Method |-> "POST", URL |-> url,
     Header |-> << <<"User-Agent", "go-yggdrasil">> >>, Body |-> body]

NewRequest(url, body) ==
    [Method |-> "POST", URL |-> url, Header |-> EmptyHeader, Body |-> body]

NoRequest == [Method |-> "", URL |-> "", Header |-> EmptyHeader, Body |-> JNull]

AuthenticateURL == "https://authserver.mojang.com/authenticate"
RefreshURL == "https://authserver.mojang.com/refresh"
ValidateURL == "https://authserver.mojang.com/validate"
SignoutURL == "https://authserver.mojang.com/signout"
InvalidateURL == "https://authserver.mojang.com/invalidate"

MarshalProfile(p) ==
    JObject(<< <<"id", JString(p.ID)>>,
               <<"name", JString(p.Name)>>,
               <<"legacy", JBool(p.Legacy)>> >>)

MarshalAgent(name, version) ==
    JObject(<< <<"name", JString(name)>>, <<"version", JNumber(version)>> >>)

AuthenticationRequest(c, username, password, gameName, gameVersion) ==
    JObject(<< <<"agent", MarshalAgent(gameName, gameVersion)>>,
               <<"username", JString(username)>>,
               <<"password", JString(password)>>,
               <<"clientToken", JString(c.ClientToken)>>,
               <<"requestUser", JBool(TRUE)>> >>)

\* Faulty variant: the access token is left out of the struct literal.
RefreshRequestStale(c) ==
    JObject(<< <<"accessToken", JString("")>>,
               <<"clientToken", JString(c.ClientToken)>>,
               <<"selectedProfile", MarshalProfile(ZeroProfile)>>,
               <<"requestUser", JBool(TRUE)>> >>)

\* SelectedProfile is not set in the struct literal and is sent as its zero value.
RefreshRequest(c) ==
    JObject(<< <<"accessToken", JString(c.AccessToken)>>,
               <<"clientToken", JString(c.ClientToken)>>,
               <<"selectedProfile", MarshalProfile(ZeroProfile)>>,
               <<"requestUser", JBool(TRUE)>> >>)

ValidateRequest(c) ==
    JObject(<< <<"accessToken", JString(c.AccessToken)>>,
               <<"clientToken", JString(c.ClientToken)>> >>)

SignoutRequest(username, password) ==
    JObject(<< <<"username", JString(username)>>, <<"password", JString(password)>> >>)

InvalidateRequest(c) ==
    JObject(<< <<"accessToken", JString(c.AccessToken)>>,
               <<"clientToken", JString(c.ClientToken)>> >>)

(***************************************************************************)
(* What a call hands back: it returns its results, or it panics on a nil   *)
(* pointer dereference and returns nothing.  One record shape serves the   *)
(* five signatures; a result an operation does not have stays nil / false. *)
(***************************************************************************)
Returned == "return"
Panicked == "panic"

NilAuth == NilPtr(ZeroAuthenticationResponse)
NilRefresh == NilPtr(ZeroRefreshResponse)
NilError == NilPtr(ZeroError)

Ret(kind, auth, refresh, ok, err) ==
    [err |-> err, kind |-> kind, ok |-> ok,
     authResponse |-> auth, refreshResponse |-> refresh]

NoReturn == Ret("none", NilAuth, NilRefresh, FALSE, NilError)
Panic == Ret(Panicked, NilAuth, NilRefresh, FALSE, NilError)
ReturnAuth(auth, err) == Ret(Returned, auth, NilRefresh, FALSE, err)
ReturnRefresh(refresh, err) == Ret(Returned, NilAuth, refresh, FALSE, err)
ReturnBool(ok, err) == Ret(Returned, NilAuth, NilRefresh, ok, err)
ReturnError(err) == Ret(Returned, NilAuth, NilRefresh, FALSE, err)

Result(c, r) == [client |-> c, ret |-> r]

\* var errorResponse *Error; json.Unmarshal(body, &errorResponse); on an
\* error a fresh &Error{FuncError: err}, else the decoded Error with the
\* response's status stored through the pointer.
ErrorResult(panic, err) == [err |-> err, panic |-> panic]

ErrorResponseWithoutStatus(out) ==
    LET u == UnmarshalError(out.body)
    IN  IF u.err # NoError THEN ErrorResult(FALSE, Ptr(LocalError(u.err)))
        ELSE IF u.ptr.isNil THEN ErrorResult(TRUE, NilError)
        ELSE ErrorResult(FALSE, Ptr(u.ptr.val))

ErrorResponse(out) ==
    LET u == UnmarshalError(out.body)
    IN  IF u.err # NoError THEN ErrorResult(FALSE, Ptr(LocalError(u.err)))
        ELSE IF u.ptr.isNil THEN ErrorResult(TRUE, NilError)
        ELSE ErrorResult(FALSE, Ptr([u.ptr.val EXCEPT !.StatusCode = out.status]))

(***************************************************************************)
(* The five operations, as functions of the client and of the exchange's   *)
(* outcome: the client afterwards and what the call hands back.            *)
(***************************************************************************)

\* Faulty variant: the user is not copied.
StoreAuthenticationPartly(c, r) ==
    [c EXCEPT !.AccessToken = r.AccessToken, !.SelectedProfile = r.SelectedProfile]

\* client.AccessToken, client.SelectedProfile and client.User are assigned
\* from the decoded response; client.ClientToken is not.
StoreAuthentication(c, r) ==
    [c EXCEPT !.AccessToken = r.AccessToken,
              !.SelectedProfile = r.SelectedProfile,
              !.User = r.User]

StoreRefresh(c, r) ==
    [c EXCEPT !.AccessToken = r.AccessToken,
              !.SelectedProfile = r.SelectedProfile,
              !.User = r.User]

\* Faulty variant: a syntax error is swallowed and an empty response returned.
AuthenticateResultLenient(c, out) ==
    IF TransportError(out) # NoError
    THEN Result(c, ReturnAuth(NilAuth, Ptr(LocalError(TransportError(out)))))
    ELSE IF out.status < StatusOK \/ out.status > StatusOK
    THEN LET e == ErrorResponse(out)
         IN  IF e.panic THEN Result(c, Panic) ELSE Result(c, ReturnAuth(NilAuth, e.err))
    ELSE LET u == UnmarshalAuthenticationResponse(out.body)
         IN  IF u.err = TypeError
             THEN Result(c, ReturnAuth(NilAuth, Ptr(LocalError(u.err))))
             ELSE IF u.ptr.isNil /\ u.err = NoError THEN Result(c, Panic)
             ELSE Result(StoreAuthentication(c, u.ptr.val), ReturnAuth(Ptr(u.ptr.val), NilError))

AuthenticateResult(c, out) ==
    IF TransportError(out) # NoError
    THEN Result(c, ReturnAuth(NilAuth, Ptr(LocalError(TransportError(out)))))
    ELSE IF out.status < StatusOK \/ out.status > StatusOK
    THEN LET e == ErrorResponse(out)
         IN  IF e.panic THEN Result(c, Panic) ELSE Result(c, ReturnAuth(NilAuth, e.err))
    ELSE LET u == UnmarshalAuthenticationResponse(out.body)
         IN  IF u.err # NoError
             THEN Result(c, ReturnAuth(NilAuth, Ptr(LocalError(u.err))))
             ELSE IF u.ptr.isNil THEN Result(c, Panic)
             ELSE Result(StoreAuthentication(c, u.ptr.val), ReturnAuth(u.ptr, NilError))

\* Faulty variant: a failed refresh drops the access token it could not renew.
RefreshResultClearing(c, out) ==
    IF TransportError(out) # NoError
    THEN Result(c, ReturnRefresh(NilRefresh, Ptr(LocalError(TransportError(out)))))
    ELSE IF out.status < StatusOK \/ out.status > StatusOK
    THEN LET e == ErrorResponse(out)
         IN  IF e.panic THEN Result(c, Panic)
             ELSE Result([c EXCEPT !.AccessToken = ""], ReturnRefresh(NilRefresh, e.err))
    ELSE LET u == UnmarshalRefreshResponse(out.body)
         IN  IF u.err # NoError
             THEN Result(c, ReturnRefresh(NilRefresh, Ptr(LocalError(u.err))))
             ELSE IF u.ptr.isNil THEN Result(c, Panic)
             ELSE Result(StoreRefresh(c, u.ptr.val), ReturnRefresh(u.ptr, NilError))

RefreshResult(c, out) ==
    IF TransportError(out) # NoError
    THEN Result(c, ReturnRefresh(NilRefresh, Ptr(LocalError(TransportError(out)))))
    ELSE IF out.status < StatusOK \/ out.status > StatusOK
    THEN LET e == ErrorResponse(out)
         IN  IF e.panic THEN Result(c, Panic) ELSE Result(c, ReturnRefresh(NilRefresh, e.err))
    ELSE LET u == UnmarshalRefreshResponse(out.body)
         IN  IF u.err # NoError
             THEN Result(c, ReturnRefresh(NilRefresh, Ptr(LocalError(u.err))))
             ELSE IF u.ptr.isNil THEN Result(c, Panic)
             ELSE Result(StoreRefresh(c, u.ptr.val), ReturnRefresh(u.ptr, NilError))

\* Faulty variant: every 4xx status is taken for an error envelope.
ValidateResultAny4xx(c, out) ==
    IF TransportError(out) # NoError
    THEN Result(c, ReturnBool(FALSE, Ptr(LocalError(TransportError(out)))))
    ELSE IF out.status = StatusNoContent THEN Result(c, ReturnBool(TRUE, NilError))
    ELSE IF out.status >= 400 /\ out.status < 600
    THEN LET e == ErrorResponse(out)
         IN  IF e.panic THEN Result(c, Panic) ELSE Result(c, ReturnBool(FALSE, e.err))
    ELSE Result(c, ReturnBool(FALSE, NilError))

ValidateResult(c, out) ==
    IF TransportError(out) # NoError
    THEN Result(c, ReturnBool(FALSE, Ptr(LocalError(TransportError(out)))))
    ELSE IF out.status = StatusNoContent THEN Result(c, ReturnBool(TRUE, NilError))
    ELSE IF out.status = StatusForbidden
    THEN LET e == ErrorResponse(out)
         IN  IF e.panic THEN Result(c, Panic) ELSE Result(c, ReturnBool(FALSE, e.err))
    ELSE Result(c, ReturnBool(FALSE, NilError))

\* Validate as src/unnamed/part_000 has it: on 403 the body is decoded, a
\* decode error is returned, and a decoded Error is dropped without being
\* dereferenced.
ValidateResultPart000(c, out) ==
    IF TransportError(out) # NoError
    THEN Result(c, ReturnBool(FALSE, Ptr(LocalError(TransportError(out)))))
    ELSE IF out.status = StatusNoContent THEN Result(c, ReturnBool(TRUE, NilError))
    ELSE IF out.status = StatusForbidden
    THEN LET u == UnmarshalError(out.body)
         IN  IF u.err # NoError
             THEN Result(c, ReturnBool(FALSE, Ptr(LocalError(u.err))))
             ELSE Result(c, ReturnBool(FALSE, NilError))
    ELSE Result(c, ReturnBool(FALSE, NilError))

\* Faulty variant: success is read off the status code, not the body.
SignoutResultByStatus(c, out) ==
    IF TransportError(out) # NoError
    THEN Result(c, ReturnBool(FALSE, Ptr(LocalError(TransportError(out)))))
    ELSE IF out.status = StatusNoContent THEN Result(c, ReturnBool(TRUE, NilError))
    ELSE LET e == ErrorResponse(out)
         IN  IF e.panic THEN Result(c, Panic) ELSE Result(c, ReturnBool(FALSE, e.err))

SignoutResult(c, out) ==
    IF TransportError(out) # NoError
    THEN Result(c, ReturnBool(FALSE, Ptr(LocalError(TransportError(out)))))
    ELSE IF Len(out.body.bytes) = 0 THEN Result(c, ReturnBool(TRUE, NilError))
    ELSE LET e == ErrorResponse(out)
         IN  IF e.panic THEN Result(c, Panic) ELSE Result(c, ReturnBool(FALSE, e.err))

InvalidateResult(c, out) ==
    IF TransportError(out) # NoError
    THEN Result(c, ReturnError(Ptr(LocalError(TransportError(out)))))
    ELSE IF Len(out.body.bytes) = 0 THEN Result(c, ReturnError(NilError))
    ELSE LET e == ErrorResponse(out)
         IN  IF e.panic THEN Result(c, Panic) ELSE Result(c, ReturnError(e.err))

(***************************************************************************)
(* The state machine.  A call is one step: the request is built from the   *)
(* client as it is, the environment picks the exchange's outcome, and the  *)
(* client and the returned values are what the operation makes of it.  A   *)
(* panic is not recovered: the program makes no further call.              *)
(***************************************************************************)
Usernames == {"steve@example.com"}
Passwords == {"hunter2"}
GameNames == {"Minecraft"}
GameVersions == {1}

Call(name, req, out, r) ==
    /\ ret.kind # Panicked
    /\ op' = name
    /\ request' = req
    /\ transport' = out
    /\ client' = r.client
    /\ ret' = r.ret

Authenticate(username, password, gameName, gameVersion, out) ==
    Call("Authenticate",
         NewRequest(AuthenticateURL,
                    AuthenticationRequest(client, username, password, gameName, gameVersion)),
         out, AuthenticateResult(client, out))

Refresh(out) ==
    Call("Refresh", NewRequest(RefreshURL, RefreshRequest(client)),
         out, RefreshResult(client, out))

Validate(out) ==
    Call("Validate", NewRequest(ValidateURL, ValidateRequest(client)),
         out, ValidateResult(client, out))

ValidatePart000(out) ==
    Call("ValidatePart000", NewRequest(ValidateURL, ValidateRequest(client)),
         out, ValidateResultPart000(client, out))

Signout(username, password, out) ==
    Call("Signout", NewRequest(SignoutURL, SignoutRequest(username, password)),
         out, SignoutResult(client, out))

Invalidate(out) ==
    Call("Invalidate", NewRequest(InvalidateURL, InvalidateRequest(client)),
         out, InvalidateResult(client, out))

\* The caller makes the client: &Client{ClientToken: ...}, or a stored
\* access/client token pair; the profile and the user start as zero values.
Init ==
    /\ client \in {Client(at, ct, ZeroProfile, ZeroUser) :
                       at \in AccessTokens, ct \in ClientTokens}
    /\ op = "none"
    /\ request = NoRequest
    /\ transport = NoOutcome
    /\ ret = NoReturn

DoAuthenticate ==
    \E u \in Usernames, p \in Passwords, g \in GameNames, v \in GameVersions :
        \/ Authenticate(u, p, g, v, Outcome(DoFailed, 0, InvalidBody("")))
        \/ \E s \in Statuses : Authenticate(u, p, g, v, Outcome(ReadFailed, s, InvalidBody("")))
        \/ \E s \in Statuses, i \in DOMAIN Bodies :
              Authenticate(u, p, g, v, Outcome(Responded, s, Bodies[i]))

DoRefresh ==
    \/ Refresh(Outcome(DoFailed, 0, InvalidBody("")))
    \/ \E s \in Statuses : Refresh(Outcome(ReadFailed, s, InvalidBody("")))
    \/ \E s \in Statuses, i \in DOMAIN Bodies :
          Refresh(Outcome(Responded, s, Bodies[i]))

DoValidate ==
    \/ Validate(Outcome(DoFailed, 0, InvalidBody("")))
    \/ \E s \in Statuses : Validate(Outcome(ReadFailed, s, InvalidBody("")))
    \/ \E s \in Statuses, i \in DOMAIN Bodies :
          Validate(Outcome(Responded, s, Bodies[i]))

DoValidatePart000 ==
    \/ ValidatePart000(Outcome(DoFailed, 0, InvalidBody("")))
    \/ \E s \in Statuses : ValidatePart000(Outcome(ReadFailed, s, InvalidBody("")))
    \/ \E s \in Statuses, i \in DOMAIN Bodies :
          ValidatePart000(Outcome(Responded, s, Bodies[i]))

DoSignout ==
    \E u \in Usernames, p \in Passwords :
        \/ Signout(u, p, Outcome(DoFailed, 0, InvalidBody("")))
        \/ \E s \in Statuses : Signout(u, p, Outcome(ReadFailed, s, InvalidBody("")))
        \/ \E s \in Statuses, i \in DOMAIN Bodies :
              Signout(u, p, Outcome(Responded, s, Bodies[i]))

DoInvalidate ==
    \/ Invalidate(Outcome(DoFailed, 0, InvalidBody("")))
    \/ \E s \in Statuses : Invalidate(Outcome(ReadFailed, s, InvalidBody("")))
    \/ \E s \in Statuses, i \in DOMAIN Bodies :
          Invalidate(Outcome(Responded, s, Bodies[i]))

Next ==
    \/ DoAuthenticate
    \/ DoRefresh
    \/ DoValidate
    \/ DoValidatePart000
    \/ DoSignout
    \/ DoInvalidate

Spec == Init /\ [][Next]_vars

(***************************************************************************)
(* Properties.                                                             *)
(***************************************************************************)
Called == op # "none"
GotResponse == transport.kind = Responded

\* The call returned a response and no Error.
AuthenticateSucceeded ==
    op = "Authenticate" /\ ret.kind = Returned /\ ret.err.isNil /\ ~ret.authResponse.isNil
RefreshSucceeded ==
    op = "Refresh" /\ ret.kind = Returned /\ ret.err.isNil /\ ~ret.refreshResponse.isNil
Succeeded == AuthenticateSucceeded \/ RefreshSucceeded

\* C1: after every Authenticate or Refresh call that succeeds (status 200, a
\* body that decodes, the decoded response returned), the session's access
\* token, selected profile and user are exactly those of the response the
\* call returned, whatever the session held before.
C1_SessionEqualsResponse ==
    /\ AuthenticateSucceeded =>
          /\ GotResponse /\ transport.status = StatusOK
          /\ client.AccessToken = ret.authResponse.val.AccessToken
          /\ client.SelectedProfile = ret.authResponse.val.SelectedProfile
          /\ client.User = ret.authResponse.val.User
    /\ RefreshSucceeded =>
          /\ GotResponse /\ transport.status = StatusOK
          /\ client.AccessToken = ret.refreshResponse.val.AccessToken
          /\ client.SelectedProfile = ret.refreshResponse.val.SelectedProfile
          /\ client.User = ret.refreshResponse.val.User
    /\ (op \in {"Authenticate", "Refresh"} /\ ret.kind = Returned /\ ret.err.isNil)
          => Succeeded

\* A successful Authenticate whose response carries a user with properties.
C1_Witness ==
    /\ AuthenticateSucceeded
    /\ ret.authResponse.val.AccessToken = AccessTokenName(2)
    /\ client.User.Properties # <<>>
    /\ client.SelectedProfile.Name = ProfileName(2)

\* C2: after a successful Authenticate the session holds the access token
\* and the client token of the response.
C2_SessionHoldsTokenPair ==
    AuthenticateSucceeded =>
        /\ client.AccessToken = ret.authResponse.val.AccessToken
        /\ client.ClientToken = ret.authResponse.val.ClientToken

\* C3: a call that does not succeed -- any Validate, Signout or Invalidate,
\* and any Authenticate or Refresh that returns an Error or does not return
\* -- leaves the four session fields as they were.
C3_OnlySuccessChangesSession ==
    [][(~Succeeded') => (client' = client)]_vars

\* A failed Refresh on a session that an earlier Authenticate filled.
C3_Witness ==
    /\ op = "Refresh"
    /\ ret.kind = Returned /\ ~ret.err.isNil
    /\ client.AccessToken = AccessTokenName(1)
    /\ client.SelectedProfile.Name = ProfileName(1)

ValidateCalled == op \in {"Validate", "ValidatePart000"}
ReturnedTrue == ret.kind = Returned /\ ret.ok /\ ret.err.isNil
ReturnedFalse == ret.kind = Returned /\ ~ret.ok
ReturnedError == ret.kind = Returned /\ ~ret.err.isNil

\* C4: Validate returns (true, no error) if and only if the transport
\* returns a response with status 204; for every other status, and for
\* every local failure, it returns false.
C4_ValidateTrueIff204 ==
    ValidateCalled =>
        /\ ReturnedTrue <=> (GotResponse /\ transport.status = StatusNoContent)
        /\ ~(GotResponse /\ transport.status = StatusNoContent) => ReturnedFalse

\* C5 as the specification states it: for every response whose status is
\* not 204 Validate returns false, with an attached Error only when the
\* status is 403 and the body decodes successfully, the Error then being
\* the decoded envelope carrying status 403; for a status other than 204
\* and 403 it returns (false, no error).
C5_ErrorOnlyForDecoded403 ==
    (ValidateCalled /\ GotResponse /\ transport.status # StatusNoContent) =>
        /\ ReturnedFalse
        /\ ~ret.err.isNil =>
              /\ transport.status = StatusForbidden
              /\ UnmarshalError(transport.body).err = NoError
              /\ ret.err.val =
                    [UnmarshalError(transport.body).ptr.val
                        EXCEPT !.StatusCode = StatusForbidden]
        /\ transport.status # StatusForbidden => ret = ReturnBool(FALSE, NilError)

\* C5, amended: for every response whose status is not 204 Validate never
\* returns true; it returns an attached Error only when the status is 403,
\* and that Error is a local decode failure when the body does not decode
\* and the decoded envelope carrying status 403 when the body decodes to an
\* envelope (the Validate of src/unnamed/part_000 returns no Error there);
\* for a status other than 204 and 403 it returns (false, no error).
C5_ErrorOnlyFor403 ==
    (ValidateCalled /\ GotResponse /\ transport.status # StatusNoContent) =>
        LET u == UnmarshalError(transport.body)
        IN  /\ ~ReturnedTrue
            /\ ReturnedError =>
                  /\ transport.status = StatusForbidden
                  /\ ~ret.ok
                  /\ \/ u.err # NoError /\ ret.err.val = LocalError(u.err)
                     \/ /\ op = "Validate"
                        /\ u.err = NoError /\ ~u.ptr.isNil
                        /\ ret.err.val.FuncError = NoError
                        /\ ret.err.val.StatusCode = StatusForbidden
                        /\ ret.err.val.Error = u.ptr.val.Error
                        /\ ret.err.val.ErrorMessage = u.ptr.val.ErrorMessage
                        /\ ret.err.val.Cause = u.ptr.val.Cause
            /\ (transport.status = StatusForbidden /\ u.err # NoError) => ReturnedError
            /\ (transport.status = StatusForbidden /\ u.err = NoError /\ ~u.ptr.isNil) =>
                  IF op = "Validate" THEN ReturnedError
                  ELSE ret = ReturnBool(FALSE, NilError)
            /\ transport.status # StatusForbidden => ret = ReturnBool(FALSE, NilError)

\* Validate answers a 403 whose body is an error envelope with a cause.
C5_Witness ==
    /\ op = "Validate" /\ GotResponse /\ transport.status = StatusForbidden
    /\ ReturnedError /\ ~ret.ok
    /\ ret.err.val.StatusCode = StatusForbidden
    /\ ret.err.val.Cause = "UserMigratedException"

\* C6: once a response has been received, Signout returns (true, no error)
\* and Invalidate returns no error if and only if the response body is
\* empty, whatever the status code.
C6_SuccessIffEmptyBody ==
    /\ (op = "Signout" /\ GotResponse) =>
          (ReturnedTrue <=> Len(transport.body.bytes) = 0)
    /\ (op = "Invalidate" /\ GotResponse) =>
          ((ret.kind = Returned /\ ret.err.isNil) <=> Len(transport.body.bytes) = 0)

\* Signout succeeds on an empty body that came with status 500.
C6_Witness ==
    /\ op = "Signout" /\ GotResponse
    /\ transport.status = 500 /\ Len(transport.body.bytes) = 0
    /\ ReturnedTrue

\* C7: every Error an operation returns is either a local failure
\* (FuncError set, status 0, empty code, message and cause) or a remote
\* failure (FuncError unset, code, message and cause as decoded from the
\* response body, status that of the response).
IsLocalFailure(e) ==
    /\ e.FuncError # NoError
    /\ e.StatusCode = 0
    /\ e.Error = "" /\ e.ErrorMessage = "" /\ e.Cause = ""
    /\ e.FuncError \in {DoError, ReadError, SyntaxError, TypeError}
    /\ e.FuncError = DoError <=> transport.kind = DoFailed
    /\ e.FuncError = ReadError <=> transport.kind = ReadFailed

IsRemoteFailure(e) ==
    /\ e.FuncError = NoError
    /\ GotResponse
    /\ e.StatusCode = transport.status
    /\ transport.body.valid /\ transport.body.json.t = "object"
    /\ e.Error = DecodeString(Member(transport.body.json.m, "error")).val
    /\ e.ErrorMessage = DecodeString(Member(transport.body.json.m, "errorMessage")).val
    /\ e.Cause = DecodeString(Member(transport.body.json.m, "cause")).val

C7_ErrorCategories ==
    ReturnedError =>
        /\ IsLocalFailure(ret.err.val) \/ IsRemoteFailure(ret.err.val)
        /\ ~(IsLocalFailure(ret.err.val) /\ IsRemoteFailure(ret.err.val))

\* Invalidate returns the envelope of a 403, whose body named a status of
\* its own.
C7_Witness ==
    /\ op = "Invalidate" /\ ReturnedError
    /\ transport.status = StatusForbidden
    /\ transport.body.valid /\ transport.body.json.t = "object"
    /\ HasMember(transport.body.json.m, "StatusCode")
    /\ ret.err.val.Error = "IllegalArgumentException"
    /\ ret.err.val.StatusCode = StatusForbidden

\* A body that is not well-formed JSON for the response schema: bytes that
\* are not JSON, a JSON value that is neither an object nor null, or an
\* object whose accessToken is not a string.
NotWellFormed(body) ==
    \/ ~body.valid
    \/ (body.json.t # "null" /\ body.json.t # "object")
    \/ /\ body.json.t = "object"
       /\ Member(body.json.m, "accessToken").t # "null"
       /\ Member(body.json.m, "accessToken").t # "string"

\* C8: when Authenticate or Refresh receives status 200 with a body that is
\* not well-formed JSON for the response schema, the call returns no
\* response and an Error whose FuncError is the decode failure, with no
\* remote field set, and the session is left as it was.
C8_MalformedBodyIsLocalFailure ==
    [][(/\ op' \in {"Authenticate", "Refresh"}
        /\ transport'.kind = Responded
        /\ transport'.status = StatusOK
        /\ NotWellFormed(transport'.body))
       => (/\ ret'.kind = Returned
           /\ ret'.authResponse.isNil /\ ret'.refreshResponse.isNil
           /\ ~ret'.err.isNil
           /\ ret'.err.val =
                 LocalError(IF transport'.body.valid THEN TypeError ELSE SyntaxError)
           /\ client' = client)]_vars

\* Refresh, on a session an earlier success filled, meets a 200 whose body
\* is cut short.
C8_Witness ==
    /\ op = "Refresh" /\ GotResponse /\ transport.status = StatusOK
    /\ client.SelectedProfile.Name = ProfileName(2)
    /\ ~transport.body.valid /\ Len(transport.body.bytes) > 0
    /\ ReturnedError /\ ret.err.val.FuncError = SyntaxError
    /\ ret.refreshResponse.isNil
    /\ client.AccessToken = AccessTokenName(2)

\* C9 as the specification states it: every request sent carries a
\* client-identifier header that the client sets on the request.
C9_ClientIdentifierHeaderSent ==
    Called => \E i \in DOMAIN request.Header : request.Header[i][1] = "User-Agent"

\* C9, amended: no operation sets a header on its request; every request is
\* a POST of the operation's JSON document to the operation's URL with the
\* header the constructor left empty.
C9_NoHeaderSet ==
    Called =>
        /\ request.Method = "POST"
        /\ request.Header = <<>>
        /\ request.Body.t = "object"
        /\ request.URL =
              CASE op = "Authenticate" -> AuthenticateURL
                [] op = "Refresh" -> RefreshURL
                [] op \in {"Validate", "ValidatePart000"} -> ValidateURL
                [] op = "Signout" -> SignoutURL
                [] op = "Invalidate" -> InvalidateURL

\* An Invalidate request has gone out and was answered.
C9_Witness ==
    /\ op = "Invalidate" /\ GotResponse
    /\ request.URL = InvalidateURL
    /\ request.Header = <<>>
    /\ Member(request.Body.m, "accessToken") = JString(AccessTokenName(1))

\* C10: every request carries the session's tokens as they are when the
\* call is made: Authenticate sends the client token with requestUser true,
\* Refresh, Validate and Invalidate send the access token and the client
\* token; the access token held, and so sent next, changes only with a
\* successful Authenticate or Refresh, to the one that response carried.
C10_RequestsCarryCurrentTokens ==
    [][/\ op' = "Authenticate" =>
            /\ Member(request'.Body.m, "clientToken") = JString(client.ClientToken)
            /\ Member(request'.Body.m, "requestUser") = JBool(TRUE)
       /\ op' \in {"Refresh", "Validate", "ValidatePart000", "Invalidate"} =>
            /\ Member(request'.Body.m, "accessToken") = JString(client.AccessToken)
            /\ Member(request'.Body.m, "clientToken") = JString(client.ClientToken)
       /\ AuthenticateSucceeded' =>
            client'.AccessToken =
                DecodeString(Member(transport'.body.json.m, "accessToken")).val
       /\ RefreshSucceeded' =>
            client'.AccessToken =
                DecodeString(Member(transport'.body.json.m, "accessToken")).val
       /\ ~Succeeded' => client'.AccessToken = client.AccessToken
      ]_vars

\* A Refresh sent the second access token, which an earlier call had
\* stored, and replaced it by the first.
C10_Witness ==
    /\ RefreshSucceeded
    /\ Member(request.Body.m, "clientToken") = JString(ClientTokenName(1))
    /\ Member(request.Body.m, "accessToken") = JString(AccessTokenName(2))
    /\ client.AccessToken = AccessTokenName(1)

\* C11: for every status code and every response body, the literal null
\* included, each of the five operations returns to its caller with a result
\* or an Error; none dereferences a decoded response or Error that is nil.
C11_EveryCallReturns ==
    Called => ret.kind = Returned

====
